---- MODULE Spec2Model ----
(***************************************************************************)
(* displayctl: save / load / list / current / delete of GNOME monitor      *)
(* layouts (src/src/displayctl/cli.py).                                    *)
(*                                                                         *)
(* State: the display service's current state (what GetCurrentState        *)
(* returns), the configuration directory (one JSON file per name) and the  *)
(* observable record of the most recent invocation of the tool: its        *)
(* command line, the D-Bus calls it made, what it printed, its exit code.  *)
(* One action per CLI command, run to completion (the tool is a            *)
(* single-threaded, synchronous, one-shot process).                        *)
(***************************************************************************)
EXTENDS Integers, Sequences, FiniteSets, TLC

VARIABLES live, store, last

vars == <<live, store, last>>

(***************************************************************************)
(* Bounds of the model.                                                    *)
(***************************************************************************)
\* longest mode list of a connector in the live state a load runs against
MaxModes == 2
\* longest mode list of a connector in a state that gets saved
MaxSavedModes == 1
\* serials the service hands out are 1..MaxSerial
MaxSerial == 2
\* longest mode list of the monitor in a payload that capture parses
MaxCaptureModes == 2

(***************************************************************************)
(* Python values.                                                          *)
(***************************************************************************)
\* Python's None / JSON null (never equal to a mode id of the service)
None == "<null>"
\* the empty dict {}
EmptyDict == [k \in {} |-> TRUE]
\* the exceptions the model distinguishes
KeyError == "<KeyError>"

Names == {"home", "work"}
\* sorted(config_files): the names in path order
SortedNames == <<"home", "work">>

(***************************************************************************)
(* The D-Bus payload of GetCurrentState, as the service sends it:          *)
(*   mode            <<id, width, height, refresh, preferred_scale,        *)
(*                     supported_scales, properties>>                      *)
(*   monitor         <<<<connector, vendor, product, serial>>, modes,      *)
(*                     properties>>                                        *)
(*   logical monitor <<x, y, scale, transform, primary, monitor_specs,     *)
(*                     properties>>                                        *)
(*   state           <<serial, monitors, logical_monitors, properties>>    *)
(* A properties payload is [dict |-> the mapping] when it converts to a     *)
(* dict, and a record without that field when it does not.  The            *)
(* "is-current" flag of a mode is a key of its properties: TRUE, FALSE, or *)
(* not there at all.                                                       *)
(***************************************************************************)
DictPayload(mapping) == [dict |-> mapping]

ModeProps(flag) ==
    DictPayload(IF flag = "absent" THEN EmptyDict
                ELSE ("is-current" :> (flag = "true")))

WireMode(m, flag) == <<m[1], m[2], m[3], m[4], 1, <<1, 2>>, ModeProps(flag)>>

MonitorSpec(connector) == <<connector, "VND", "PRD", "0x01">>

WireMonitor(connector, modes) ==
    <<MonitorSpec(connector), modes, DictPayload(EmptyDict)>>

\* <<id, width, height, refresh rate>> of the modes the service may offer
ModeA == <<"modeA", 1920, 1080, 60>>
ModeB == <<"modeB", 1920, 1080, 75>>
ModeC == <<"modeC", 1280, 720, 60>>
ModeD == <<"modeD", 1920, 1080, 60>>

\* at most one mode flagged current; the others carry FALSE or no flag
FlagPatterns(k) ==
    { [i \in 1..k |-> IF i = c THEN "true" ELSE other] :
        c \in 0..k, other \in {"false", "absent"} }

DistinctIds(ms) == \A i, j \in 1..Len(ms) : i # j => ms[i][1] # ms[j][1]

\* the mode lists of 1..n modes of pool, ids distinct, in every order
ModeLists(pool, n) ==
    UNION { { [i \in 1..k |-> WireMode(ms[i], fl[i])] :
                ms \in {s \in [1..k -> pool] : DistinctIds(s)},
                fl \in FlagPatterns(k) } : k \in 1..n }

\* geometry of the i-th logical monitor of a layout
WireLogical(i, connectors) ==
    <<1920 * (i - 1), 0, i, i - 1, i = 1,
      [j \in 1..Len(connectors) |-> MonitorSpec(connectors[j])],
      DictPayload(EmptyDict)>>

\* the layouts of the connected monitors: side by side, or mirrored
Layouts(monitors) ==
    LET conns == [i \in 1..Len(monitors) |-> monitors[i][1][1]]
    IN  { [i \in 1..Len(conns) |-> WireLogical(i, <<conns[i]>>)] }
          \cup (IF Len(conns) > 1 THEN { <<WireLogical(1, conns)>> } ELSE {})

\* HDMI-1 absent or with a mode list of hdmiLists, DP-1 absent or with a mode
\* list of dpLists, in each layout, under each serial
ServiceStates(hdmiLists, dpLists, serials) ==
    LET hdmi == {<<>>} \cup { <<WireMonitor("HDMI-1", ml)>> : ml \in hdmiLists }
        dp   == {<<>>} \cup { <<WireMonitor("DP-1", ml)>> : ml \in dpLists }
    IN  UNION { { <<s, h \o d, lms, DictPayload("layout-mode" :> 1)>> :
                    lms \in Layouts(h \o d), s \in serials } :
                h \in hdmi, d \in dp }

\* a properties payload that dict() rejects with TypeError or ValueError
BadPayload == [raises |-> "TypeError"]

(***************************************************************************)
(* Capture: get_current_state and its parsers.                             *)
(***************************************************************************)
\* dict(properties) if it converts, else {}
_safe_dict_conversion(properties) ==
    IF "dict" \in DOMAIN properties THEN properties.dict ELSE EmptyDict

\* the snapshot's Monitor records of the payload's monitors
_parse_monitors(monitors) ==
    [i \in 1..Len(monitors) |->
        [connector  |-> monitors[i][1][1],
         modes      |-> [j \in 1..Len(monitors[i][2]) |->
                            LET mode == monitors[i][2][j]
                            IN  [id               |-> mode[1],
                                 width            |-> mode[2],
                                 height           |-> mode[3],
                                 refresh_rate     |-> mode[4],
                                 preferred_scale  |-> mode[5],
                                 supported_scales |-> mode[6],
                                 properties       |->
                                     _safe_dict_conversion(mode[7])]],
         properties |-> _safe_dict_conversion(monitors[i][3])]]

RECURSIVE ScanModes(_, _)
\* the inner loop of get_mode_for_connector: the id of the first mode whose
\* "is-current" is true; a mode without the key raises KeyError
ScanModes(modes, j) ==
    IF j > Len(modes) THEN None
    ELSE IF "is-current" \notin DOMAIN modes[j].properties THEN KeyError
    ELSE IF modes[j].properties["is-current"] THEN modes[j].id
    ELSE ScanModes(modes, j + 1)

RECURSIVE ScanMonitors(_, _, _)
ScanMonitors(connector, monitors, i) ==
    IF i > Len(monitors) THEN None
    ELSE IF monitors[i].connector = connector
              /\ ScanModes(monitors[i].modes, 1) # None
         THEN ScanModes(monitors[i].modes, 1)
         ELSE ScanMonitors(connector, monitors, i + 1)

\* the id of the connector's current mode, None, or KeyError
get_mode_for_connector(connector, monitors) ==
    ScanMonitors(connector, monitors, 1)

\* the snapshot's LogicalMonitor records (a monitor spec that does not
\* unpack into four fields is skipped with a warning)
_parse_logical_monitors(logical_monitors, monitors) ==
    [i \in 1..Len(logical_monitors) |->
        LET lm    == logical_monitors[i]
            specs == SelectSeq(lm[6], LAMBDA s : Len(s) = 4)
        IN  [x          |-> lm[1],
             y          |-> lm[2],
             scale      |-> lm[3],
             transform  |-> lm[4],
             primary    |-> lm[5],
             monitors   |-> [j \in 1..Len(specs) |->
                                [connector |-> specs[j][1],
                                 mode_id   |-> get_mode_for_connector(
                                                   specs[j][1], monitors)]],
             properties |-> _safe_dict_conversion(lm[7])]]

\* every (connector, mode_id) pair of the parsed logical monitors
Pairs(logical_monitors) ==
    UNION { { logical_monitors[i].monitors[j] :
                j \in 1..Len(logical_monitors[i].monitors) } :
            i \in 1..Len(logical_monitors) }

\* get_current_state: replyOk is whether the D-Bus call returned; the result
\* is the snapshot, or the exception that leaves the function (the top-level
\* properties are converted by a bare dict(), after the parsers have run)
get_current_state(state, replyOk) ==
    IF ~replyOk THEN [ok |-> FALSE, error |-> "RuntimeError"]
    ELSE LET monitors_ == _parse_monitors(state[2])
             logical   == _parse_logical_monitors(state[3], monitors_)
         IN  IF \E p \in Pairs(logical) : p.mode_id = KeyError
             THEN [ok |-> FALSE, error |-> "KeyError"]
             ELSE IF "dict" \notin DOMAIN state[4]
             THEN [ok |-> FALSE, error |-> "TypeError"]
             ELSE [ok    |-> TRUE,
                   value |-> [serial           |-> state[1],
                              monitors         |-> monitors_,
                              logical_monitors |-> logical,
                              properties       |-> state[4].dict]]


(***************************************************************************)
(* What an invocation prints: lines [kind, args].                          *)
(***************************************************************************)
Line(kind, args) == [kind |-> kind, args |-> args]

RECURSIVE Flatten(_)
\* the concatenation of a sequence of sequences
Flatten(seqs) ==
    IF seqs = <<>> THEN <<>> ELSE Head(seqs) \o Flatten(Tail(seqs))

SetMax(S) == CHOOSE x \in S : \A y \in S : y <= x

(***************************************************************************)
(* Load: _show_config_preview, _apply_config, load_config.                 *)
(***************************************************************************)
\* mutant: the preview shows each connector's current first mode
_show_config_preview_live(config, name) ==
    <<Line("would_apply", <<name>>), Line("serial", <<config.serial>>)>>
    \o Flatten([i \in 1..Len(config.logical_monitors) |->
          LET lm == config.logical_monitors[i]
          IN  <<Line("logical_monitor",
                     <<i, lm.x, lm.y, lm.scale, lm.primary>>)>>
              \o [j \in 1..Len(lm.monitors) |->
                    LET at == {k \in 1..Len(live[2]) :
                                live[2][k][1][1] = lm.monitors[j].connector}
                    IN  Line("monitor",
                             <<lm.monitors[j].connector,
                               IF at = {} THEN lm.monitors[j].mode_id
                               ELSE live[2][CHOOSE k \in at : TRUE][2][1][1]>>)]])
    \o <<Line("use_load_without_dry_run", <<>>)>>

\* the preview of a stored configuration: its serial, then each logical
\* monitor and its (connector, mode_id) pairs as stored
_show_config_preview(config, name) ==
    <<Line("would_apply", <<name>>), Line("serial", <<config.serial>>)>>
    \o Flatten([i \in 1..Len(config.logical_monitors) |->
          LET lm == config.logical_monitors[i]
          IN  <<Line("logical_monitor",
                     <<i, lm.x, lm.y, lm.scale, lm.primary>>)>>
              \o [j \in 1..Len(lm.monitors) |->
                    Line("monitor", <<lm.monitors[j].connector,
                                      lm.monitors[j].mode_id>>)]])
    \o <<Line("use_load_without_dry_run", <<>>)>>

\* current_monitors.get(connector), of current_monitors =
\* {m['connector']: m for m in ...}: <<the last monitor of that connector>>,
\* or <<>> for None
CurrentMonitor(current_state, connector) ==
    LET ms   == current_state.monitors
        hits == {i \in 1..Len(ms) : ms[i].connector = connector}
    IN  IF hits = {} THEN <<>> ELSE <<ms[SetMax(hits)]>>

\* mutant: the load is refused only when none of its monitors is there
MissingMonitors_all_gone(config, current_state) ==
    LET wanted == { p.connector : p \in Pairs(config.logical_monitors) }
        there  == { current_state.monitors[i].connector :
                      i \in 1..Len(current_state.monitors) }
    IN  IF wanted \cap there = {} THEN wanted ELSE {}

\* config_monitors - set(current_monitors.keys())
MissingMonitors(config, current_state) ==
    { p.connector : p \in Pairs(config.logical_monitors) }
      \ { current_state.monitors[i].connector :
            i \in 1..Len(current_state.monitors) }

RECURSIVE SavedModeFrom(_, _, _, _, _)
\* the scan of config['monitors'] for the saved Mode record of mode_id: in
\* each monitor of that connector the first mode with that id (break), a
\* later monitor's find replacing an earlier one's
SavedModeFrom(monitors, connector, mode_id, i, found) ==
    IF i > Len(monitors) THEN found
    ELSE LET modes == monitors[i].modes
             hits  == {j \in 1..Len(modes) : modes[j].id = mode_id}
         IN  IF monitors[i].connector = connector /\ hits # {}
             THEN SavedModeFrom(monitors, connector, mode_id, i + 1,
                      <<modes[CHOOSE j \in hits : \A k \in hits : j <= k]>>)
             ELSE SavedModeFrom(monitors, connector, mode_id, i + 1, found)

\* saved_mode: <<>> for None, or <<the saved Mode record>> (the scan runs once
\* for every saved pair of the connector, each run giving the same result)
SavedMode(config, connector, mode_id) ==
    IF \E p \in Pairs(config.logical_monitors) : p.connector = connector
    THEN SavedModeFrom(config.monitors, connector, mode_id, 1, <<>>)
    ELSE <<>>

\* mutant: the last mode of that resolution instead of the first
AlternativeMode_last(modes, saved_mode) ==
    LET hits == {j \in 1..Len(modes) :
                    /\ modes[j].width = saved_mode.width
                    /\ modes[j].height = saved_mode.height}
    IN  IF hits = {} THEN <<>> ELSE <<modes[SetMax(hits)]>>

\* <<the first mode of the connector's current modes with the saved mode's
\* width and height>>, or <<>> when there is none (the for-else branch)
AlternativeMode(modes, saved_mode) ==
    LET hits == {j \in 1..Len(modes) :
                    /\ modes[j].width = saved_mode.width
                    /\ modes[j].height = saved_mode.height}
    IN  IF hits = {} THEN <<>>
        ELSE <<modes[CHOOSE j \in hits : \A k \in hits : j <= k]>>

\* One pass of the loop body over a saved pair (lines 257-314): the monitor
\* spec it appends, or the early return, or the TypeError of dbus.String.
\* coerce is what dbus.String(None) does: the string "None", or TypeError.
MonitorSpecFor(config, current_state, monitor, coerce) ==
    LET connector == monitor.connector
        mode_id   == monitor.mode_id
        got       == CurrentMonitor(current_state, connector)
        current   == got[1]
        available == {current.modes[j].id : j \in 1..Len(current.modes)}
        saved     == SavedMode(config, connector, mode_id)
        alt       == AlternativeMode(current.modes, saved[1])
        warn      == <<Line("mode_no_longer_available",
                            <<mode_id, connector>>)>>
        built(id, out) ==
            IF id = None /\ ~coerce
            THEN [status |-> "raise", out |-> out]
            ELSE [status |-> "ok", out |-> out,
                  spec   |-> <<connector,
                               IF id = None THEN "None" ELSE id,
                               EmptyDict>>]
    IN  IF got = <<>> THEN built(mode_id, <<>>)
        ELSE IF mode_id \in available THEN built(mode_id, <<>>)
        ELSE IF saved = <<>> THEN built(mode_id, warn)
        ELSE IF alt = <<>>
             THEN [status |-> "return",
                   out    |-> warn \o <<Line("no_suitable_alternative",
                                             <<connector>>)>>]
             ELSE built(alt[1].id,
                        warn \o <<Line("using_alternative",
                                       <<alt[1].id, connector>>)>>)

RECURSIVE OutUntilStop(_, _)
\* what the passes print, up to and including the one that stops the loop
OutUntilStop(passes, i) ==
    IF i > Len(passes) THEN <<>>
    ELSE IF passes[i].status # "ok" THEN passes[i].out
    ELSE passes[i].out \o OutUntilStop(passes, i + 1)

\* mutant: x and y change places
LogicalMonitorsDbus_swapped(config, passesOf) ==
    [i \in 1..Len(config.logical_monitors) |->
        LET lm == config.logical_monitors[i]
        IN  <<lm.y, lm.x, lm.scale, lm.transform, lm.primary,
              [j \in 1..Len(passesOf[i]) |-> passesOf[i][j].spec]>>]

\* the logical-monitor tuples of the request, from the passes of each
\* logical monitor
LogicalMonitorsDbus(config, passesOf) ==
    [i \in 1..Len(config.logical_monitors) |->
        LET lm == config.logical_monitors[i]
        IN  <<lm.x, lm.y, lm.scale, lm.transform, lm.primary,
              [j \in 1..Len(passesOf[i]) |-> passesOf[i][j].spec]>>]

\* mutant: the stored snapshot's serial is echoed back
ApplySerial_stored(config, current_state) == config.serial

\* the serial handed to ApplyMonitorsConfig
ApplySerial(config, current_state) == current_state.serial

\* a GetCurrentState call and whether it returned a state that parsed (the
\* serial it returned, 0 when it did not)
GetCurrentStateCall(reply) ==
    [method |-> "GetCurrentState", ok |-> reply.ok,
     serial |-> IF reply.ok THEN reply.value.serial ELSE 0]

ApplyMonitorsConfigCall(serial, method, logical_monitors, properties) ==
    [method |-> "ApplyMonitorsConfig", serial |-> serial, verify |-> method,
     logical_monitors |-> logical_monitors, properties |-> properties]

\* _apply_config: the calls it makes, what it prints, and whether it leaves
\* by an exception.  getOk, applyOk: whether the service answers the call;
\* coerce: see MonitorSpecFor.
_apply_config(config, state, getOk, applyOk, coerce) ==
    LET reply   == get_current_state(state, getOk)
        query   == <<GetCurrentStateCall(reply)>>
        current == reply.value
        missing == MissingMonitors(config, current)
        passesOf ==
            [i \in 1..Len(config.logical_monitors) |->
                [j \in 1..Len(config.logical_monitors[i].monitors) |->
                    MonitorSpecFor(config, current,
                        config.logical_monitors[i].monitors[j], coerce)]]
        passes  == Flatten(passesOf)
        stops   == {k \in 1..Len(passes) : passes[k].status # "ok"}
        stop    == passes[CHOOSE k \in stops : \A l \in stops : k <= l]
        request == ApplyMonitorsConfigCall(ApplySerial(config, current), 1,
                       LogicalMonitorsDbus(config, passesOf),
                       config.properties)
    IN  IF ~reply.ok
        THEN [calls |-> query, raised |-> TRUE,
              out   |-> <<Line("error_applying", <<reply.error>>)>>]
        ELSE IF missing # {}
        THEN [calls |-> query, raised |-> FALSE,
              out   |-> <<Line("monitors_not_available", <<missing>>),
                          Line("cannot_be_applied", <<>>)>>]
        ELSE IF stops # {}
        THEN [calls |-> query, raised |-> stop.status = "raise",
              out   |-> OutUntilStop(passes, 1)
                        \o (IF stop.status = "raise"
                            THEN <<Line("error_applying", <<"TypeError">>)>>
                            ELSE <<>>)]
        ELSE [calls |-> query \o <<request>>, raised |-> ~applyOk,
              out   |-> OutUntilStop(passes, 1)
                        \o <<Line("applying", <<>>)>>
                        \o (IF applyOk
                            THEN <<Line("applied_successfully", <<>>)>>
                            ELSE <<Line("dbus_error_applying", <<>>)>>)]

\* what the configuration directory holds under <name>.json: nothing, a file
\* that is not valid JSON, or a JSON document
NoFile == [kind |-> "absent"]

CorruptFile == [kind |-> "corrupt"]

JsonFile(config) == [kind |-> "json", config |-> config]

\* before the first invocation
Idle == [cmd |-> "none", name |-> "", dry_run |-> FALSE, exit |-> 0,
         calls |-> <<>>, out |-> <<>>]

\* the record of an invocation
Ran(cmd, name, dry_run, exit, calls, out) ==
    [cmd |-> cmd, name |-> name, dry_run |-> dry_run, exit |-> exit,
     calls |-> calls, out |-> out]

\* mutant: --dry-run previews and then applies all the same
load_config_applies_on_dry_run(name, dry_run, getOk, applyOk, coerce) ==
    LET file   == store[name]
        config == file.config
        apply  == _apply_config(config, live, getOk, applyOk, coerce)
    IN  /\ last' =
              IF file.kind = "absent"
              THEN Ran("load", name, dry_run, 1, <<>>,
                       <<Line("not_found", <<name>>)>>)
              ELSE IF file.kind = "corrupt"
              THEN Ran("load", name, dry_run, 1, <<>>,
                       <<Line("error_loading", <<"JSONDecodeError">>)>>)
              ELSE Ran("load", name, dry_run, IF apply.raised THEN 1 ELSE 0,
                       apply.calls,
                       (IF dry_run THEN _show_config_preview(config, name)
                        ELSE <<>>) \o apply.out)
        /\ UNCHANGED <<live, store>>

\* load_config: the record of `load <name> [--dry-run]`
load_config(name, dry_run, getOk, applyOk, coerce) ==
    LET file   == store[name]
        config == file.config
        apply  == _apply_config(config, live, getOk, applyOk, coerce)
    IN  /\ last' =
              IF file.kind = "absent"
              THEN Ran("load", name, dry_run, 1, <<>>,
                       <<Line("not_found", <<name>>)>>)
              ELSE IF file.kind = "corrupt"
              THEN Ran("load", name, dry_run, 1, <<>>,
                       <<Line("error_loading", <<"JSONDecodeError">>)>>)
              ELSE IF dry_run
              THEN Ran("load", name, dry_run, 0, <<>>,
                       _show_config_preview(config, name))
              ELSE IF apply.raised
              THEN Ran("load", name, dry_run, 1, apply.calls,
                       apply.out \o <<Line("error_loading", <<>>)>>)
              ELSE Ran("load", name, dry_run, 0, apply.calls,
                       apply.out \o <<Line("config_applied_successfully",
                                           <<name>>)>>)
        /\ UNCHANGED <<live, store>>

(***************************************************************************)
(* Save, list, current, delete.                                            *)
(***************************************************************************)
\* mutant: the file name does not depend on the name given
WriteConfig_every_name(name, config) == [n \in Names |-> JsonFile(config)]

\* json.dump(config, f) into <name>.json: create or overwrite
WriteConfig(name, config) == [store EXCEPT ![name] = JsonFile(config)]

\* save_config: the record of `save <name>`
save_config(name, getOk) ==
    LET reply == get_current_state(live, getOk)
    IN  /\ last' = IF reply.ok
                   THEN Ran("save", name, FALSE, 0,
                            <<GetCurrentStateCall(reply)>>,
                            <<Line("saved_as", <<name>>)>>)
                   ELSE Ran("save", name, FALSE, 1,
                            <<GetCurrentStateCall(reply)>>,
                            <<Line("error_saving", <<reply.error>>)>>)
        /\ store' = IF reply.ok THEN WriteConfig(name, reply.value)
                    ELSE store
        /\ UNCHANGED live

\* config_dir.glob("*.json"), sorted: the names that have a file
ConfigFiles == SelectSeq(SortedNames, LAMBDA n : store[n].kind # "absent")

\* what list prints for one file
ListEntry(name) ==
    LET file == store[name]
        lms  == file.config.logical_monitors
    IN  IF file.kind = "corrupt"
        THEN <<Line("error_reading_file", <<name>>)>>
        ELSE <<Line("config", <<name, Len(Flatten(
                        [i \in 1..Len(lms) |-> lms[i].monitors]))>>)>>
             \o Flatten([i \in 1..Len(lms) |->
                   <<Line("logical_monitor",
                          <<i, lms[i].x, lms[i].y, lms[i].scale,
                            lms[i].primary>>)>>
                   \o [j \in 1..Len(lms[i].monitors) |->
                         Line("monitor", <<lms[i].monitors[j].connector,
                                           lms[i].monitors[j].mode_id>>)]])

\* list_configs: the record of `list`
list_configs ==
    /\ last' = Ran("list", "", FALSE, 0, <<>>,
                   IF ConfigFiles = <<>>
                   THEN <<Line("no_configurations_found", <<>>)>>
                   ELSE <<Line("saved_configurations", <<>>)>>
                        \o Flatten([i \in 1..Len(ConfigFiles) |->
                                      ListEntry(ConfigFiles[i])]))
    /\ UNCHANGED <<live, store>>

\* show_current: the record of `current`
show_current(getOk) ==
    LET reply  == get_current_state(live, getOk)
        config == reply.value
    IN  /\ last' =
              IF ~reply.ok
              THEN Ran("current", "", FALSE, 1,
                       <<GetCurrentStateCall(reply)>>,
                       <<Line("error_getting_current", <<reply.error>>)>>)
              ELSE Ran("current", "", FALSE, 0,
                       <<GetCurrentStateCall(reply)>>,
                       <<Line("serial", <<config.serial>>)>>
                       \o [i \in 1..Len(config.monitors) |->
                             Line("available_monitor",
                                  <<config.monitors[i].connector,
                                    Len(config.monitors[i].modes)>>)]
                       \o Flatten([i \in 1..Len(config.logical_monitors) |->
                             LET lm == config.logical_monitors[i]
                             IN  <<Line("logical_monitor",
                                        <<i, lm.x, lm.y, lm.scale,
                                          lm.primary>>)>>
                                 \o [j \in 1..Len(lm.monitors) |->
                                       Line("monitor",
                                            <<lm.monitors[j].connector,
                                              lm.monitors[j].mode_id>>)]]))
        /\ UNCHANGED <<live, store>>

\* mutant: the directory is emptied
Unlink_all(name) == [n \in Names |-> NoFile]

\* config_file.unlink()
Unlink(name) == [store EXCEPT ![name] = NoFile]

\* delete_config: the record of `delete <name>`
delete_config(name) ==
    /\ last' = IF store[name].kind = "absent"
               THEN Ran("delete", name, FALSE, 1, <<>>,
                        <<Line("not_found", <<name>>)>>)
               ELSE Ran("delete", name, FALSE, 0, <<>>,
                        <<Line("deleted", <<name>>)>>)
    /\ store' = IF store[name].kind = "absent" THEN store ELSE Unlink(name)
    /\ UNCHANGED live

(***************************************************************************)
(* A session: the commands in any order, the display service changing      *)
(* between invocations.                                                    *)
(***************************************************************************)
\* the states of the display service during a session: HDMI-1 unplugged, or
\* plugged with one mode, flagged current or not flagged
SessionStates ==
    ServiceStates({ <<WireMode(m, flag)>> :
                      m \in {ModeA, ModeB, ModeC}, flag \in {"true", "absent"} },
                  {}, 1..MaxSerial)

\* a hotplug, a mode change or a restart of the service, between invocations
ServiceChange ==
    /\ live' \in SessionStates \ {live}
    /\ last' = Idle
    /\ UNCHANGED store

Init ==
    /\ live \in SessionStates
    /\ store \in [Names -> {NoFile, CorruptFile}]
    /\ last = Idle

Next ==
    \/ \E name \in Names, getOk \in BOOLEAN : save_config(name, getOk)
    \/ \E name \in Names, dry_run, getOk, applyOk, coerce \in BOOLEAN :
          load_config(name, dry_run, getOk, applyOk, coerce)
    \/ list_configs
    \/ \E getOk \in BOOLEAN : show_current(getOk)
    \/ \E name \in Names : delete_config(name)
    \/ ServiceChange

Spec == Init /\ [][Next]_vars

(***************************************************************************)
(* A load of a stored configuration against a live state, over a wider     *)
(* range of both.                                                          *)
(***************************************************************************)
\* the states of the display service a load runs against
LoadStates ==
    ServiceStates(ModeLists({ModeB, ModeC, ModeD}, MaxModes),
                  {<<WireMode(ModeC, "true")>>}, 1..MaxSerial)

\* the states of the display service that were saved earlier
SavedStates ==
    ServiceStates(ModeLists({ModeA, ModeB, ModeC}, MaxSavedModes),
                  {<<WireMode(ModeC, "true")>>}, {1})

\* the files a load may find: what save wrote of a saved state, and the same
\* file with its "monitors" list emptied by hand (the files are user-editable
\* JSON; load reads whatever is there)
SavedSnapshots ==
    LET written == { get_current_state(s, TRUE).value :
                       s \in {t \in SavedStates : get_current_state(t, TRUE).ok} }
    IN  written \cup { [c EXCEPT !.monitors = <<>>] : c \in written }

InitLoad ==
    /\ live \in LoadStates
    /\ \E c \in SavedSnapshots :
          store = [n \in Names |-> IF n = "work" THEN JsonFile(c) ELSE NoFile]
    /\ last = Idle

\* one invocation of load from each pairing of a file and a live state (a
\* load changes neither, so a second one would only repeat the first)
NextLoad ==
    /\ last = Idle
    /\ \E name \in Names, dry_run, getOk, applyOk, coerce \in BOOLEAN :
          load_config(name, dry_run, getOk, applyOk, coerce)

SpecLoad == InitLoad /\ [][NextLoad]_vars

(***************************************************************************)
(* Capture on its own: one save or current from each payload the service   *)
(* may return, among them modes no one of which is flagged current, a      *)
(* logical monitor naming a connector that has no Monitor entry, and       *)
(* properties payloads that are empty or do not convert.                   *)
(***************************************************************************)
\* the properties payloads of a mode: flagged, not flagged, empty, bad
ModePayloads ==
    {ModeProps("true"), ModeProps("false"), ModeProps("absent"), BadPayload}

\* the properties payloads of a monitor, a logical monitor and the state
PlainPayloads == {DictPayload(EmptyDict), BadPayload}

\* the mode lists of 1..MaxCaptureModes modes, ids distinct, each mode with
\* each payload
CaptureModeLists ==
    UNION { { [i \in 1..k |-> [WireMode(ms[i], "absent") EXCEPT ![7] = pl[i]]] :
                ms \in {s \in [1..k -> {ModeA, ModeB, ModeC}] : DistinctIds(s)},
                pl \in [1..k -> ModePayloads] } : k \in 1..MaxCaptureModes }

\* no logical monitor, or one on HDMI-1, on DP-1, or mirroring both
CaptureLayouts ==
    {<<>>} \cup { <<[WireLogical(1, conns) EXCEPT ![7] = pl]>> :
                    conns \in {<<"HDMI-1">>, <<"DP-1">>, <<"HDMI-1", "DP-1">>},
                    pl \in PlainPayloads }

\* HDMI-1 is the only monitor the service reports
CaptureStates ==
    { <<1, <<[WireMonitor("HDMI-1", ml) EXCEPT ![3] = mp]>>, lms, tp>> :
        ml \in CaptureModeLists, mp \in PlainPayloads,
        lms \in CaptureLayouts, tp \in PlainPayloads }

InitCapture ==
    /\ live \in CaptureStates
    /\ store = [n \in Names |-> NoFile]
    /\ last = Idle

NextCapture ==
    /\ last = Idle
    /\ \/ \E name \in Names, getOk \in BOOLEAN : save_config(name, getOk)
       \/ \E getOk \in BOOLEAN : show_current(getOk)

SpecCapture == InitCapture /\ [][NextCapture]_vars

(***************************************************************************)
(* Vocabulary of the properties: the last invocation against the store and *)
(* the live state it ran on (no command changes the live state, and a      *)
(* change of the live state clears the record).                            *)
(***************************************************************************)
\* the last invocation was a load of a stored JSON document
IsLoad == last.cmd = "load" /\ store[last.name].kind = "json"

\* ... without --dry-run
RealLoad == IsLoad /\ ~last.dry_run

\* S: the stored snapshot the last load read
Loaded == store[last.name].config

\* the (connector, mode_id) pairs of S in order
LoadedPairs ==
    Flatten([i \in 1..Len(Loaded.logical_monitors) |->
                Loaded.logical_monitors[i].monitors])

\* L: the connectors of the live state, and a connector's live mode list
LiveConnectors == { live[2][i][1][1] : i \in 1..Len(live[2]) }

LiveModes(connector) ==
    live[2][CHOOSE i \in 1..Len(live[2]) : live[2][i][1][1] = connector][2]

LiveModeIds(connector) ==
    { LiveModes(connector)[j][1] : j \in 1..Len(LiveModes(connector)) }

\* the pair is in L as it is in S
Verbatim(p) ==
    p.connector \in LiveConnectors /\ p.mode_id \in LiveModeIds(p.connector)

\* the Mode records S itself holds for the pair
SavedRecords(p) ==
    UNION { { Loaded.monitors[a].modes[b] :
                b \in { c \in 1..Len(Loaded.monitors[a].modes) :
                          Loaded.monitors[a].modes[c].id = p.mode_id } } :
            a \in { d \in 1..Len(Loaded.monitors) :
                      Loaded.monitors[d].connector = p.connector } }

\* positions of the live modes of the connector with that width and height
SameResolution(connector, r) ==
    { j \in 1..Len(LiveModes(connector)) :
        /\ LiveModes(connector)[j][2] = r.width
        /\ LiveModes(connector)[j][3] = r.height }

\* the ApplyMonitorsConfig calls of the last invocation
ApplyCalls ==
    { k \in 1..Len(last.calls) : last.calls[k].method = "ApplyMonitorsConfig" }

\* the last invocation's first call was a GetCurrentState that returned
Queried ==
    /\ last.calls # <<>>
    /\ last.calls[1].method = "GetCurrentState"
    /\ last.calls[1].ok

\* the lines of one kind that the last invocation printed
Printed(kind) == SelectSeq(last.out, LAMBDA l : l.kind = kind)

\* the (connector, mode id) pairs of the request, in order
SentPairs(call) ==
    Flatten([i \in 1..Len(call.logical_monitors) |->
                [j \in 1..Len(call.logical_monitors[i][6]) |->
                    [connector |-> call.logical_monitors[i][6][j][1],
                     mode_id   |-> call.logical_monitors[i][6][j][2]]]])

\* the request carries the geometry of S's logical monitors, in order
GeometryAsSaved(call) ==
    /\ Len(call.logical_monitors) = Len(Loaded.logical_monitors)
    /\ \A i \in 1..Len(Loaded.logical_monitors) :
          LET lm == Loaded.logical_monitors[i]
              t  == call.logical_monitors[i]
          IN  /\ <<t[1], t[2], t[3], t[4], t[5]>>
                   = <<lm.x, lm.y, lm.scale, lm.transform, lm.primary>>
              /\ Len(t[6]) = Len(lm.monitors)
              /\ \A j \in 1..Len(lm.monitors) :
                    t[6][j][1] = lm.monitors[j].connector

\* C1: a load without --dry-run of a snapshot that references a connector
\* absent from the live monitor list makes no ApplyMonitorsConfig call.
NoApplyWhenConnectorMissing ==
    (RealLoad /\ \E p \in Pairs(Loaded.logical_monitors) :
                    p.connector \notin LiveConnectors)
        => ApplyCalls = {}

\* the live state was queried, one referenced connector is there and another
\* is not
WitnessPartlyMissing ==
    /\ RealLoad /\ Queried
    /\ \E p, q \in Pairs(Loaded.logical_monitors) :
          p.connector \notin LiveConnectors /\ q.connector \in LiveConnectors

\* C2: a load whose reconciliation fails exits non-zero and is not reported
\* as applied; exit code 0 only when the configuration was applied or
\* previewed.
FailedLoadExitsNonZero ==
    IsLoad =>
        /\ last.exit = 0 => (last.dry_run \/ ApplyCalls # {})
        /\ (~last.dry_run /\ \E p \in Pairs(Loaded.logical_monitors) :
                                p.connector \notin LiveConnectors)
              => (last.exit # 0 /\ Printed("config_applied_successfully") = <<>>)

\* C3: every (connector, mode id) pair of an ApplyMonitorsConfig request
\* names a mode of that connector's live mode list.
AppliedModesAreLive ==
    \A k \in ApplyCalls :
        \A i \in 1..Len(SentPairs(last.calls[k])) :
            Verbatim(SentPairs(last.calls[k])[i])

\* C4: when the live state was obtained and holds every pair of S verbatim,
\* the load sends one request with S's logical monitors in order, each with
\* its saved geometry and pairs, substitutes nothing, and exits 0 unless the
\* service rejects the request; a snapshot of the unchanged live state loads
\* without a substitution.
VerbatimLoadSendsSavedLayout ==
    /\ (RealLoad /\ Queried /\ \A p \in Pairs(Loaded.logical_monitors) : Verbatim(p))
          => /\ Len(last.calls) = 2 /\ ApplyCalls = {2}
             /\ GeometryAsSaved(last.calls[2])
             /\ SentPairs(last.calls[2]) = LoadedPairs
             /\ last.calls[2].verify = 1
             /\ Printed("using_alternative") = <<>>
             /\ Printed("mode_no_longer_available") = <<>>
             /\ (last.exit = 0 \/ Printed("dbus_error_applying") # <<>>)
    /\ (RealLoad /\ Queried /\ Loaded = get_current_state(live, TRUE).value)
          => /\ Printed("using_alternative") = <<>>
             /\ \A k \in ApplyCalls :
                   \A i \in 1..Len(LoadedPairs) :
                      LoadedPairs[i].mode_id # None
                         => SentPairs(last.calls[k])[i] = LoadedPairs[i]

\* two logical monitors, differently placed, all pairs verbatim, applied
WitnessVerbatimApplied ==
    /\ RealLoad /\ Queried /\ last.exit = 0
    /\ Len(Loaded.logical_monitors) = 2
    /\ Loaded.serial # live[1]
    /\ \A p \in Pairs(Loaded.logical_monitors) : Verbatim(p)

\* the pair is stale, S records its mode, and L has a mode of that size
Replaceable(p) ==
    /\ p.connector \in LiveConnectors
    /\ p.mode_id \notin LiveModeIds(p.connector)
    /\ \E r \in SavedRecords(p) : SameResolution(p.connector, r) # {}

\* C5: for a stale pair whose mode S records, the id sent is that of the
\* first live mode of the connector, in list order, with the saved width and
\* height; pairs that are live go out unchanged, the geometry goes out
\* unchanged, and the request is sent whenever every pair is one or the
\* other.
StaleModeGetsFirstSameResolution ==
    /\ \A k \in ApplyCalls :
          /\ GeometryAsSaved(last.calls[k])
          /\ \A i \in 1..Len(LoadedPairs) :
                LET p    == LoadedPairs[i]
                    sent == SentPairs(last.calls[k])[i]
                IN  /\ Verbatim(p) => sent = p
                    /\ (p.mode_id \notin LiveModeIds(p.connector)
                          /\ SavedRecords(p) # {})
                          => \E r \in SavedRecords(p) :
                               \E j \in SameResolution(p.connector, r) :
                                  /\ \A l \in SameResolution(p.connector, r) : j <= l
                                  /\ sent.mode_id = LiveModes(p.connector)[j][1]
    /\ (RealLoad /\ Queried
          /\ \A p \in Pairs(Loaded.logical_monitors) : Verbatim(p) \/ Replaceable(p))
          => /\ ApplyCalls = {2}
             /\ (last.exit = 0 \/ Printed("dbus_error_applying") # <<>>)

\* a stale pair with two live modes of its size, the first of them not the
\* one with the saved refresh rate, beside a pair that is live; applied
WitnessTieBreak ==
    /\ RealLoad /\ last.exit = 0 /\ ApplyCalls # {}
    /\ \E p, q \in Pairs(Loaded.logical_monitors) :
          /\ Verbatim(q)
          /\ Replaceable(p)
          /\ \E r \in SavedRecords(p) :
                /\ Cardinality(SameResolution(p.connector, r)) > 1
                /\ \E j \in SameResolution(p.connector, r) :
                      /\ \A l \in SameResolution(p.connector, r) : j <= l
                      /\ LiveModes(p.connector)[j][4] # r.refresh_rate

\* C6: a load that calls ApplyMonitorsConfig has queried GetCurrentState
\* just before, and passes the serial that query returned, which is the live
\* serial and not the stored one; a load without --dry-run calls
\* GetCurrentState first.
FreshSerialIsApplied ==
    /\ RealLoad => (last.calls # <<>> /\ last.calls[1].method = "GetCurrentState")
    /\ \A k \in ApplyCalls :
          /\ k = 2 /\ last.cmd = "load"
          /\ last.calls[1].method = "GetCurrentState" /\ last.calls[1].ok
          /\ last.calls[2].serial = last.calls[1].serial
          /\ last.calls[2].serial = live[1]

\* applied, with a stored serial that differs from the live one
WitnessSerialsDiffer ==
    /\ RealLoad /\ ApplyCalls # {} /\ last.exit = 0
    /\ Loaded.serial # live[1]

\* C7: load --dry-run makes no call to the service, reconciles nothing, and
\* prints the stored snapshot: its serial and its pairs as stored.
DryRunOnlyPrints ==
    (IsLoad /\ last.dry_run)
        => /\ last.calls = <<>>
           /\ last.exit = 0
           /\ Printed("serial") = <<Line("serial", <<Loaded.serial>>)>>
           /\ Printed("monitor")
                = [i \in 1..Len(LoadedPairs) |->
                     Line("monitor", <<LoadedPairs[i].connector,
                                       LoadedPairs[i].mode_id>>)]
           /\ Printed("using_alternative") = <<>>
           /\ Printed("mode_no_longer_available") = <<>>

\* a dry run of a snapshot that a load would change or refuse
WitnessDryRunOfStale ==
    /\ IsLoad /\ last.dry_run
    /\ \E p \in Pairs(Loaded.logical_monitors) : ~Verbatim(p)
    /\ \E p \in Pairs(Loaded.logical_monitors) : Verbatim(p)

\* the example of C8: "work" holds one logical monitor at (0,0), scale 1,
\* primary, on HDMI-1 in modeA (1920x1080); the live HDMI-1 offers only modeB
\* (1920x1080)
ExampleWork ==
    /\ last.name = "work" /\ IsLoad
    /\ Len(Loaded.logical_monitors) = 1
    /\ LET lm == Loaded.logical_monitors[1]
       IN  /\ <<lm.x, lm.y, lm.scale, lm.primary>> = <<0, 0, 1, TRUE>>
           /\ lm.monitors = <<[connector |-> "HDMI-1", mode_id |-> "modeA"]>>
    /\ \E r \in SavedRecords([connector |-> "HDMI-1", mode_id |-> "modeA"]) :
          r.width = 1920 /\ r.height = 1080
    /\ LiveConnectors = {"HDMI-1"}
    /\ Len(LiveModes("HDMI-1")) = 1
    /\ LET m == LiveModes("HDMI-1")[1]
       IN  <<m[1], m[2], m[3]>> = <<"modeB", 1920, 1080>>

\* C8 as stated: the load substitutes modeB and applies, and the dry-run
\* preview shows "(mode: modeB)".
ExamplePreviewShowsSubstitute ==
    ExampleWork =>
        IF last.dry_run
        THEN Printed("monitor") = <<Line("monitor", <<"HDMI-1", "modeB">>)>>
        ELSE Queried =>
               /\ ApplyCalls = {2}
               /\ SentPairs(last.calls[2])
                    = <<[connector |-> "HDMI-1", mode_id |-> "modeB"]>>

\* C8 amended: the load substitutes modeB and applies; the dry-run preview
\* reconciles nothing and shows the stored "(mode: modeA)".
ExamplePreviewShowsStored ==
    ExampleWork =>
        IF last.dry_run
        THEN /\ Printed("monitor") = <<Line("monitor", <<"HDMI-1", "modeA">>)>>
             /\ last.calls = <<>>
        ELSE Queried =>
               /\ ApplyCalls = {2}
               /\ SentPairs(last.calls[2])
                    = <<[connector |-> "HDMI-1", mode_id |-> "modeB"]>>
               /\ Printed("using_alternative")
                    = <<Line("using_alternative", <<"modeB", "HDMI-1">>)>>
               /\ (last.exit = 0 \/ Printed("dbus_error_applying") # <<>>)

\* the example, loaded: modeB substituted and applied
WitnessExampleApplied ==
    /\ ExampleWork /\ ~last.dry_run /\ last.exit = 0
    /\ Printed("using_alternative") # <<>>

\* C9: delete of a name without a file exits 1 with "not found" and leaves
\* the store as it is; delete of a name with a file removes that file and no
\* other; list shows exactly the names that have a file, and a load or a
\* delete of a name without a file fails as not found.
DeleteRemovesExactlyThatEntry ==
    /\ [](last.cmd = "list" =>
            \A n \in Names :
               (store[n].kind = "absent")
                 <=> (\A i \in 1..Len(last.out) :
                         last.out[i].kind \in {"config", "error_reading_file"}
                            => last.out[i].args[1] # n))
    /\ [][ last'.cmd \in {"delete", "load"} =>
             LET n == last'.name
             IN  /\ store[n].kind = "absent"
                    => /\ store' = store
                       /\ last'.exit = 1
                       /\ last'.out = <<Line("not_found", <<n>>)>>
                 /\ (last'.cmd = "delete" /\ store[n].kind # "absent")
                    => /\ store'[n] = NoFile
                       /\ last'.exit = 0
                       /\ \A m \in Names \ {n} : store'[m] = store[m] ]_vars

\* a file was deleted while the other name still has its file
WitnessDeletedOne ==
    /\ last.cmd = "delete" /\ last.exit = 0
    /\ store[last.name].kind = "absent"
    /\ \E m \in Names : store[m].kind = "json"

\* C10: the stored content of a name changes only by save or delete of that
\* name; load, with or without --dry-run, list and current change no file.
StoreChangesOnlyBySaveOrDelete ==
    [][ \A n \in Names :
          store'[n] # store[n]
            => /\ last'.cmd \in {"save", "delete"}
               /\ last'.name = n
               /\ last'.exit = 0 ]_vars

\* a load that substituted a mode and applied, both names holding a file
WitnessLoadedWithSubstitution ==
    /\ RealLoad /\ last.exit = 0
    /\ Printed("using_alternative") # <<>>
    /\ \A n \in Names : store[n].kind = "json"

(***************************************************************************)
(* Capture: the snapshot that save wrote from the live payload.            *)
(***************************************************************************)
\* the last invocation was a save that wrote its file
Saved == last.cmd = "save" /\ last.exit = 0

\* the snapshot that save wrote
SavedSnapshot == store[last.name].config

\* the modes flagged is-current in the snapshot's Monitor entries of connector
CurrentModeIds(config, connector) ==
    UNION { { config.monitors[i].modes[j].id :
                j \in { k \in 1..Len(config.monitors[i].modes) :
                          LET props == config.monitors[i].modes[k].properties
                          IN  /\ "is-current" \in DOMAIN props
                              /\ props["is-current"] } } :
            i \in { k \in 1..Len(config.monitors) :
                      config.monitors[k].connector = connector } }

\* C11: in every snapshot that save writes, each (connector, mode-id) pair of
\* each logical monitor carries the id of a mode of that connector's Monitor
\* entry in the same snapshot, the one flagged is-current; no pair carries a
\* null or otherwise unmatched mode-id.
SavedPairsNameTheCurrentMode ==
    Saved => \A p \in Pairs(SavedSnapshot.logical_monitors) :
                 /\ p.mode_id # None
                 /\ p.mode_id \in CurrentModeIds(SavedSnapshot, p.connector)

\* a save wrote a pair with the id of the connector's current mode
WitnessSavedCurrentPair ==
    /\ Saved
    /\ \E p \in Pairs(SavedSnapshot.logical_monitors) :
          p.mode_id \in CurrentModeIds(SavedSnapshot, p.connector)

\* a save wrote a null mode-id for a connector that has a Monitor entry none
\* of whose modes is flagged current
WitnessSavedNullNoCurrent ==
    /\ Saved
    /\ \E p \in Pairs(SavedSnapshot.logical_monitors) :
          /\ p.mode_id = None
          /\ \E i \in 1..Len(SavedSnapshot.monitors) :
                SavedSnapshot.monitors[i].connector = p.connector

\* a save wrote a null mode-id for a connector that has no Monitor entry
WitnessSavedNullNoMonitor ==
    /\ Saved
    /\ \E p \in Pairs(SavedSnapshot.logical_monitors) :
          /\ p.mode_id = None
          /\ \A i \in 1..Len(SavedSnapshot.monitors) :
                SavedSnapshot.monitors[i].connector # p.connector

\* the last invocation ran capture: save or current
Captured == last.cmd \in {"save", "current"}

\* what the failed capture of the last invocation raised
CaptureError ==
    (Printed("error_saving") \o Printed("error_getting_current"))[1].args[1]

\* a payload that is empty or that does not convert
EmptyOrBad(payload) == payload \in {DictPayload(EmptyDict), BadPayload}

\* the saved snapshot has the empty mapping wherever the payload of a mode, a
\* monitor or a logical monitor does not convert
BadPayloadsSavedEmpty ==
    /\ \A i \in 1..Len(live[2]) :
          /\ live[2][i][3] = BadPayload
                => SavedSnapshot.monitors[i].properties = EmptyDict
          /\ \A j \in 1..Len(live[2][i][2]) :
                live[2][i][2][j][7] = BadPayload
                  => SavedSnapshot.monitors[i].modes[j].properties = EmptyDict
    /\ \A i \in 1..Len(live[3]) :
          live[3][i][7] = BadPayload
            => SavedSnapshot.logical_monitors[i].properties = EmptyDict

\* C12: capture tolerates an empty or malformed properties payload on a mode,
\* a monitor or a logical monitor: with the required structure well formed
\* (and the state's own properties a mapping), capture fails only when the
\* remote query fails, and the snapshot it returns has the empty mapping in
\* place of each payload that did not convert.
CaptureToleratesPropertyPayloads ==
    (Captured /\ live[4] # BadPayload)
      => /\ last.exit # 0 => CaptureError = "RuntimeError"
         /\ Saved => BadPayloadsSavedEmpty

\* a save succeeded on a state whose mode, monitor and logical monitor all
\* carry a payload that does not convert
WitnessSavedDespiteBadPayloads ==
    /\ Saved
    /\ live[3] # <<>> /\ live[3][1][7] = BadPayload
    /\ live[2][1][3] = BadPayload
    /\ \E j \in 1..Len(live[2][1][2]) : live[2][1][2][j][7] = BadPayload
    /\ BadPayloadsSavedEmpty

\* the remote query answered and capture failed on the mode of a connector in
\* the layout whose properties payload is empty or does not convert
WitnessCaptureFailedOnModePayload ==
    /\ Captured /\ last.exit # 0
    /\ CaptureError = "KeyError"
    /\ live[4] # BadPayload
    /\ \E j \in 1..Len(live[2][1][2]) : EmptyOrBad(live[2][1][2][j][7])
====
